---- MODULE Spec2Model ----
(***************************************************************************)
(* Comeback Scout backend (backend/server.py): the comeback-probability    *)
(* evaluator, the match simulator, and the alert store with its HTTP       *)
(* handlers.                                                               *)
(*                                                                         *)
(* Numbers.  Probabilities are Python floats; here they are exact          *)
(* fixed-point integers in hundredths (Scale = 100).  xG values are in     *)
(* tenths (the simulator rounds them to one decimal), comeback rates in    *)
(* percent.  Every term of the evaluator is then an exact integer:         *)
(*   rate*30 -> pct*30, xg_diff*15 -> tenths*150, (poss-55)*0.5 -> *50,    *)
(*   shots*2 -> *200, on-target*3 -> *300, attacks*0.3 -> *30.             *)
(* Identifiers (uuid4 strings) are naturals drawn from a counter.          *)
(***************************************************************************)
EXTENDS Integers, Sequences, FiniteSets, TLC

VARIABLES
    alerts,    \* db.comeback_alerts: the documents, in insertion order
    uuid,      \* number of uuid4 identifiers issued so far
    clock,     \* index of the current instant of datetime.now(timezone.utc)
    matches,   \* the batch the last call returned or evaluated (<<>> if none)
    response,  \* what the last call returned
    invocations \* the check_and_create_alerts calls suspended at an await

vars == <<alerts, uuid, clock, matches, response, invocations>>

Min(a, b) == IF a <= b THEN a ELSE b

Scale == 100

----------------------------------------------------------------------------
(* Reference data *)

SUPERTEAMS ==
    << [name |-> "Real Madrid",     logo |-> "teams/541.png", comeback_rate |-> 75],
       [name |-> "Manchester City", logo |-> "teams/50.png",  comeback_rate |-> 78],
       [name |-> "Bayern Munich",   logo |-> "teams/157.png", comeback_rate |-> 72],
       [name |-> "PSG",             logo |-> "teams/85.png",  comeback_rate |-> 68],
       [name |-> "Barcelona",       logo |-> "teams/529.png", comeback_rate |-> 71],
       [name |-> "Liverpool",       logo |-> "teams/40.png",  comeback_rate |-> 74] >>

OPPONENTS ==
    << [name |-> "Atletico Madrid", logo |-> "teams/530.png"],
       [name |-> "Sevilla",         logo |-> "teams/536.png"],
       [name |-> "Napoli",          logo |-> "teams/489.png"],
       [name |-> "Arsenal",         logo |-> "teams/42.png"],
       [name |-> "Inter Milan",     logo |-> "teams/505.png"] >>

TeamData(name, logo, score, xg, possession, shots, sot, corners, da) ==
    [name |-> name, logo |-> logo, score |-> score, xg |-> xg,
     possession |-> possession, shots |-> shots, shots_on_target |-> sot,
     corners |-> corners, dangerous_attacks |-> da]

----------------------------------------------------------------------------
(* calculate_comeback_probability *)

\* A rationale fragment: the f-string's fixed text (kind) and the values it
\* formats.  A one-decimal float x.y is the pair <<x, y>> of its digits.
Fragment(kind, a, b) == [kind |-> kind, a |-> a, b |-> b]

FormatOneDecimal(xg) == <<xg \div 10, xg % 10>>

Separator == Fragment("sep", <<>>, <<>>)

\* ", ".join(parts): the parts with the separator between neighbours.
RECURSIVE Join(_)
Join(parts) ==
    IF parts = <<>> THEN <<>>
    ELSE IF Len(parts) = 1 THEN <<parts[1]>>
    ELSE <<parts[1], Separator>> \o Join(Tail(parts))

\* Variant: reasons without the [:3] slice.
AllReasons(reasons) == reasons

\* reasons[:3]
FirstThree(reasons) == SubSeq(reasons, 1, Min(Len(reasons), 3))

HistoryTerm(is_superteam, rate) ==
    IF is_superteam THEN rate * 30 ELSE 0

\* Variant: the xG term without its cap of 25.
XgTermUncapped(team, opp) ==
    IF team.xg > opp.xg THEN (team.xg - opp.xg) * 150 ELSE 0

XgTerm(team, opp) ==
    IF team.xg > opp.xg THEN Min((team.xg - opp.xg) * 150, 25 * Scale) ELSE 0

PossessionTerm(team) ==
    IF team.possession > 55 THEN (team.possession - 55) * 50 ELSE 0

ShotsTerm(team, opp) ==
    IF team.shots > opp.shots
    THEN Min((team.shots - opp.shots) * 2 * Scale, 15 * Scale) ELSE 0

OnTargetTerm(team, opp) ==
    IF team.shots_on_target > opp.shots_on_target
    THEN Min((team.shots_on_target - opp.shots_on_target) * 3 * Scale, 10 * Scale)
    ELSE 0

AttacksTerm(team, opp) ==
    IF team.dangerous_attacks > opp.dangerous_attacks
    THEN Min((team.dangerous_attacks - opp.dangerous_attacks) * 30, 10 * Scale)
    ELSE 0

\* Variant: no final clamp.
Unclamped(p) == p

\* probability = min(probability, 95)
Clamp(p) == Min(p, 95 * Scale)

\* The fragments appended to `reasons`, in the order of the function body.
Reasons(team, opp, is_superteam, rate) ==
    LET r1 == IF is_superteam
              THEN <<Fragment("history", <<rate>>, <<>>)>> ELSE <<>>
        r2 == IF team.xg > opp.xg
              THEN Append(r1, Fragment("xg", FormatOneDecimal(team.xg),
                                             FormatOneDecimal(opp.xg)))
              ELSE r1
        r3 == IF team.possession > 55
              THEN Append(r2, Fragment("possession", <<team.possession>>, <<>>))
              ELSE r2
        r4 == IF team.shots > opp.shots
              THEN Append(r3, Fragment("shots", <<team.shots>>, <<opp.shots>>))
              ELSE r3
        r5 == IF team.dangerous_attacks > opp.dangerous_attacks
              THEN Append(r4, Fragment("pressure", <<>>, <<>>))
              ELSE r4
    IN  r5

CalculateComebackProbability(team, opp, is_superteam, rate) ==
    LET probability ==
            HistoryTerm(is_superteam, rate) + XgTerm(team, opp)
            + PossessionTerm(team) + ShotsTerm(team, opp)
            + OnTargetTerm(team, opp) + AttacksTerm(team, opp)
    IN  [probability |-> Clamp(probability),
         reason      |-> Join(FirstThree(Reasons(team, opp, is_superteam, rate)))]

----------------------------------------------------------------------------
(* Time and timestamps *)

\* datetime.now(timezone.utc) at clock index k: whole seconds and
\* microseconds.  Three instants are sampled in every second.
UsecSamples == <<0, 1, 999999>>

Instant(k) ==
    [sec |-> k \div Len(UsecSamples), usec |-> UsecSamples[(k % Len(UsecSamples)) + 1]]

\* Strings are sequences of character codes ("+" 43, "." 46, "0".."9" 48..57).
Plus == 43
Dot == 46
Zero == 48

\* Width of the zero-padded date-and-time field (YYYY-MM-DDTHH:MM:SS, here the
\* seconds count in decimal) and of the microsecond field.
SecWidth == 2
UsecWidth == 6

RECURSIVE Pow10(_)
Pow10(n) == IF n = 0 THEN 1 ELSE 10 * Pow10(n - 1)

\* n as `width` zero-padded decimal digits
Digits(n, width) ==
    [i \in 1..width |-> Zero + ((n \div Pow10(width - i)) % 10)]

RECURSIVE Number(_)
Number(str) ==
    IF str = <<>> THEN 0
    ELSE 10 * Number(SubSeq(str, 1, Len(str) - 1)) + (str[Len(str)] - Zero)

\* datetime.isoformat(): the microseconds are left out when they are zero.
IsoFormat(t) ==
    Digits(t.sec, SecWidth)
    \o (IF t.usec = 0 THEN <<>> ELSE <<Dot>> \o Digits(t.usec, UsecWidth))
    \o <<Plus>>

\* datetime.fromisoformat()
FromIsoFormat(str) ==
    [sec  |-> Number(SubSeq(str, 1, SecWidth)),
     usec |-> IF str[SecWidth + 1] = Dot
              THEN Number(SubSeq(str, SecWidth + 2, SecWidth + 1 + UsecWidth))
              ELSE 0]

\* The collection's order on string values: byte by byte, a proper prefix first.
RECURSIVE StringLess(_, _)
StringLess(x, y) ==
    IF y = <<>> THEN FALSE
    ELSE IF x = <<>> THEN TRUE
    ELSE IF x[1] # y[1] THEN x[1] < y[1]
    ELSE StringLess(Tail(x), Tail(y))

----------------------------------------------------------------------------
(* generate_mock_matches *)

BatchSize == 4

None == "<None>"

Match(id, home, away, minute, probability, scenario, losing, timestamp) ==
    [id |-> id, home_team |-> home, away_team |-> away, minute |-> minute,
     status |-> "live", comeback_probability |-> probability,
     is_comeback_scenario |-> scenario, losing_team |-> losing,
     timestamp |-> timestamp]

\* One match's random outcomes.  s_* are the superteam's statistics (xG,
\* possession, shots, on target, corners, dangerous attacks), o_* the
\* opponent's (without possession, which is 100 minus the superteam's).
Draw(opp, minute, losing, hs, as, s, o) ==
    [opponent |-> opp, minute |-> minute, is_losing |-> losing,
     home_score |-> hs, away_score |-> as,
     s_xg |-> s[1], s_possession |-> s[2], s_shots |-> s[3], s_sot |-> s[4],
     s_corners |-> s[5], s_da |-> s[6],
     o_xg |-> o[1], o_shots |-> o[2], o_sot |-> o[3], o_corners |-> o[4],
     o_da |-> o[5]]

\* The ranges the random calls draw from.
ValidDraw(d) ==
    /\ d.opponent \in 1..Len(OPPONENTS)
    /\ d.minute \in 15..85
    /\ IF d.is_losing
       THEN /\ d.home_score \in 0..1
            /\ d.away_score = d.home_score + 1
            /\ d.s_xg \in 15..28          /\ d.s_possession \in 58..72
            /\ d.s_shots \in 12..20       /\ d.s_sot \in 5..10
            /\ d.s_corners \in 6..12      /\ d.s_da \in 45..75
            /\ d.o_xg \in 5..12           /\ d.o_shots \in 4..8
            /\ d.o_sot \in 2..4           /\ d.o_corners \in 2..5
            /\ d.o_da \in 15..30
       ELSE /\ d.home_score \in 1..3
            /\ d.away_score \in 0..d.home_score
            /\ d.s_xg \in 12..25          /\ d.s_possession \in 52..68
            /\ d.s_shots \in 10..18       /\ d.s_sot \in 4..9
            /\ d.s_corners \in 5..10      /\ d.s_da \in 35..60
            /\ d.o_xg \in 4..15           /\ d.o_shots \in 5..10
            /\ d.o_sot \in 2..5           /\ d.o_corners \in 3..7
            /\ d.o_da \in 20..40

\* The draws explored for the i-th superteam: not trailing, and trailing with
\* statistics that score below, at and above the two thresholds.
Ahead == Draw(2, 15, FALSE, 2, 1, <<18, 60, 14, 6, 7, 50>>, <<9, 7, 3, 4, 30>>)
Level == Draw(5, 85, FALSE, 1, 1, <<12, 52, 10, 4, 5, 35>>, <<15, 10, 5, 7, 40>>)
At50 == Draw(1, 47, TRUE, 0, 1, <<15, 58, 12, 5, 6, 45>>, <<10, 8, 4, 2, 20>>)
At60 == Draw(3, 60, TRUE, 1, 2, <<20, 58, 12, 5, 8, 75>>, <<10, 8, 4, 5, 30>>)
Strong == Draw(4, 85, TRUE, 0, 1, <<28, 72, 20, 10, 12, 75>>, <<5, 4, 2, 2, 15>>)
Weak == Draw(1, 15, TRUE, 1, 2, <<15, 58, 12, 5, 6, 45>>, <<12, 8, 4, 5, 30>>)
Fair == Draw(2, 70, TRUE, 0, 1, <<22, 62, 14, 6, 9, 55>>, <<12, 8, 4, 3, 30>>)

SampleDraws(i) ==
    CASE i = 1 -> {At50, At60, Strong}
      [] i = 2 -> {Level, Fair}
      [] i = 3 -> {Weak, At60}
      [] OTHER -> {Level, Strong}

\* Variant: the scenario flag set from 50 on (>= in place of >).
GenerateMatchFromFifty(i, d, id, timestamp) ==
    LET superteam == SUPERTEAMS[i]
        opponent == OPPONENTS[d.opponent]
        superteam_stats ==
            TeamData(superteam.name, superteam.logo, d.home_score, d.s_xg,
                     d.s_possession, d.s_shots, d.s_sot, d.s_corners, d.s_da)
        opponent_stats ==
            TeamData(opponent.name, opponent.logo, d.away_score, d.o_xg,
                     100 - d.s_possession, d.o_shots, d.o_sot, d.o_corners, d.o_da)
        result == CalculateComebackProbability(superteam_stats, opponent_stats,
                                               TRUE, superteam.comeback_rate)
    IN  IF d.is_losing
        THEN Match(id, superteam_stats, opponent_stats, d.minute,
                   result.probability, result.probability >= 50 * Scale,
                   superteam.name, timestamp)
        ELSE Match(id, superteam_stats, opponent_stats, d.minute,
                   0, FALSE, None, timestamp)

\* The body of the loop for the i-th superteam.
GenerateMatch(i, d, id, timestamp) ==
    LET superteam == SUPERTEAMS[i]
        opponent == OPPONENTS[d.opponent]
        superteam_stats ==
            TeamData(superteam.name, superteam.logo, d.home_score, d.s_xg,
                     d.s_possession, d.s_shots, d.s_sot, d.s_corners, d.s_da)
        opponent_stats ==
            TeamData(opponent.name, opponent.logo, d.away_score, d.o_xg,
                     100 - d.s_possession, d.o_shots, d.o_sot, d.o_corners, d.o_da)
        result == CalculateComebackProbability(superteam_stats, opponent_stats,
                                               TRUE, superteam.comeback_rate)
    IN  IF d.is_losing
        THEN Match(id, superteam_stats, opponent_stats, d.minute,
                   result.probability, result.probability > 50 * Scale,
                   superteam.name, timestamp)
        ELSE Match(id, superteam_stats, opponent_stats, d.minute,
                   0, FALSE, None, timestamp)

\* Variant: a match identified by its position in the batch, the same on
\* every call.
GenerateMockMatchesByPosition(draws, firstId, tick, adv) ==
    [i \in 1..BatchSize |->
        GenerateMatch(i, draws[i], i, Instant(tick + adv * (i - 1)))]

\* The batch: one match per superteam of SUPERTEAMS[:4], in that order.  The
\* i-th match takes the i-th fresh identifier and reads the clock `adv` ticks
\* after the one before it.
GenerateMockMatches(draws, firstId, tick, adv) ==
    [i \in 1..BatchSize |->
        GenerateMatch(i, draws[i], firstId + i, Instant(tick + adv * (i - 1)))]

\* The draws of one batch, within the ranges of the random calls.
DrawBatches ==
    {ds \in {<<d1, d2, d3, d4>> : d1 \in SampleDraws(1), d2 \in SampleDraws(2),
                                  d3 \in SampleDraws(3), d4 \in SampleDraws(4)} :
        Len(ds) = BatchSize /\ \A i \in 1..BatchSize : ValidDraw(ds[i])}

----------------------------------------------------------------------------
(* The alert collection and check_and_create_alerts *)

\* f"{home}-{away}"
ScoreString(home, away) == <<home, away>>

\* ComebackAlert(...).model_dump() with the timestamp as its isoformat string
AlertDoc(id, match, opponent_data, reason, timestamp) ==
    [id |-> id, match_id |-> match.id, team_name |-> match.losing_team,
     opponent |-> opponent_data.name,
     score |-> ScoreString(match.home_team.score, match.away_team.score),
     probability |-> match.comeback_probability, minute |-> match.minute,
     reason |-> reason, timestamp |-> IsoFormat(timestamp), read |-> FALSE]

\* Variant: the query on the alert's own id in place of its match_id.
ExistingByAlertId(store, match_id, team_name) ==
    \E k \in 1..Len(store) :
        store[k].id = match_id /\ store[k].team_name = team_name

\* find_one({"match_id": ..., "team_name": ...})
Existing(store, match_id, team_name) ==
    \E k \in 1..Len(store) :
        store[k].match_id = match_id /\ store[k].team_name = team_name

\* Variant: the threshold met from 60 on (>= in place of >).
QualifiesFromSixty(match) ==
    match.is_comeback_scenario /\ match.comeback_probability >= 60 * Scale

\* if match.is_comeback_scenario and match.comeback_probability > 60
Qualifies(match) ==
    match.is_comeback_scenario /\ match.comeback_probability > 60 * Scale

\* The alert built for `match`, the `n`-th one created by this invocation.
NewAlert(match, n, firstId, tick, adv) ==
    LET home_is_losing == match.home_team.name = match.losing_team
        losing_team_data == IF home_is_losing THEN match.home_team ELSE match.away_team
        opponent_data == IF home_is_losing THEN match.away_team ELSE match.home_team
        reason == CalculateComebackProbability(losing_team_data, opponent_data,
                                               TRUE, 70).reason
    IN  AlertDoc(firstId + n, match, opponent_data, reason,
                 Instant(tick + adv * (n - 1)))

\* Variant: the insert without the find_one before it.
EvaluateMatchUnchecked(acc, match, firstId, tick, adv) ==
    IF Qualifies(match)
    THEN [store |-> Append(acc.store,
                           NewAlert(match, acc.alerts_created + 1, firstId, tick, adv)),
          alerts_created |-> acc.alerts_created + 1]
    ELSE acc

\* One iteration of the loop over the batch: the store and the counter after it.
EvaluateMatch(acc, match, firstId, tick, adv) ==
    IF Qualifies(match) /\ ~Existing(acc.store, match.id, match.losing_team)
    THEN [store |-> Append(acc.store,
                           NewAlert(match, acc.alerts_created + 1, firstId, tick, adv)),
          alerts_created |-> acc.alerts_created + 1]
    ELSE acc

\* The loop of check_and_create_alerts over `batch`, run to completion.
RECURSIVE EvaluateAndAlert(_, _, _, _, _)
EvaluateAndAlert(store, batch, firstId, tick, adv) ==
    IF batch = <<>>
    THEN [store |-> store, alerts_created |-> 0]
    ELSE LET rest == EvaluateAndAlert(store, SubSeq(batch, 1, Len(batch) - 1),
                                      firstId, tick, adv)
         IN  EvaluateMatch(rest, batch[Len(batch)], firstId, tick, adv)

----------------------------------------------------------------------------
(* Reading the collection: get_alerts and mark_alert_read *)

ListLimit == 50

\* find({}).sort("timestamp", -1): the documents in descending order of their
\* timestamp strings.  Documents with equal keys come back in an order the
\* collection does not fix: insertion order ("natural") or its reverse.
\* Each document stands at the position that counts the documents before it.
ComesBefore(store, j, k, ties) ==
    \/ StringLess(store[k].timestamp, store[j].timestamp)
    \/ /\ store[j].timestamp = store[k].timestamp
       /\ IF ties = "natural" THEN j < k ELSE k < j

SortDescending(store, ties) ==
    LET rank(k) == Cardinality({j \in 1..Len(store) : ComesBefore(store, j, k, ties)})
    IN  [p \in 1..Len(store) |->
            store[CHOOSE k \in 1..Len(store) : rank(k) = p - 1]]

\* Variant: the cursor read to its end.
ToListUnbounded(cursor, length) == cursor

\* .to_list(50)
ToList(cursor, length) == SubSeq(cursor, 1, Min(Len(cursor), length))

\* The handler's loop: a timestamp stored as a string is parsed.
ParseTimestamps(docs) ==
    [k \in 1..Len(docs) |->
        [docs[k] EXCEPT !.timestamp = FromIsoFormat(docs[k].timestamp)]]

ListAlerts(store, ties) ==
    ParseTimestamps(ToList(SortDescending(store, ties), ListLimit))

\* update_one({"id": alert_id}, {"$set": {"read": True}}): the first document
\* with that id is the one matched; modified_count counts it only when the
\* update changed it.
Matched(store, alert_id) == {k \in 1..Len(store) : store[k].id = alert_id}

FirstMatched(store, alert_id) ==
    CHOOSE k \in Matched(store, alert_id) : \A j \in Matched(store, alert_id) : k <= j

\* Variant: the update flips `read` instead of setting it.
UpdateOneToggle(store, alert_id) ==
    IF Matched(store, alert_id) = {}
    THEN [store |-> store, matched_count |-> 0, modified_count |-> 0]
    ELSE LET k == FirstMatched(store, alert_id)
         IN  [store |-> [store EXCEPT ![k].read = ~store[k].read],
              matched_count |-> 1, modified_count |-> 1]

UpdateOneRead(store, alert_id) ==
    IF Matched(store, alert_id) = {}
    THEN [store |-> store, matched_count |-> 0, modified_count |-> 0]
    ELSE LET k == FirstMatched(store, alert_id)
         IN  [store |-> [store EXCEPT ![k].read = TRUE],
              matched_count |-> 1,
              modified_count |-> IF store[k].read THEN 0 ELSE 1]

\* if result.modified_count == 0: raise HTTPException(status_code=404, ...)
MarkReadStatus(result) == IF result.modified_count = 0 THEN 404 ELSE 200

MarkReadBody(result) ==
    IF result.modified_count = 0 THEN "Alert not found" ELSE "success"

----------------------------------------------------------------------------
(* Initial state: an empty collection, no identifier issued, no call made *)

NoResponse == [op |-> "none", status |-> 0, body |-> <<>>]

Init ==
    /\ alerts = <<>>
    /\ uuid = 0
    /\ clock = 0
    /\ matches = <<>>
    /\ invocations = <<>>
    /\ response = NoResponse

----------------------------------------------------------------------------
(* The handlers, each run to completion *)

MaxUuid == 14
MaxClock == 10

\* GET /api/matches/live
GetLiveMatches ==
    \E ds \in DrawBatches, adv \in 0..1 :
        /\ uuid + BatchSize <= MaxUuid
        /\ clock + adv * BatchSize <= MaxClock
        /\ LET batch == GenerateMockMatches(ds, uuid, clock, adv)
           IN  /\ matches' = batch
               /\ response' = [op |-> "get_live_matches", status |-> 200,
                               body |-> batch]
        /\ uuid' = uuid + BatchSize
        /\ clock' = clock + adv * BatchSize
        /\ UNCHANGED <<alerts, invocations>>

\* Variant: the path parameter read as a position in the batch.
FindMatchByPosition(batch, match_id) ==
    {k \in 1..Len(batch) : k = match_id}

\* for match in matches: if match.id == match_id -- the positions that match
FindMatch(batch, match_id) ==
    {k \in 1..Len(batch) : batch[k].id = match_id}

\* return match (the first one found), or raise HTTPException(404)
GetMatchResponse(batch, match_id) ==
    LET found == FindMatch(batch, match_id)
    IN  IF found = {}
        THEN [op |-> "get_match", status |-> 404, body |-> "Match not found",
              match_id |-> match_id]
        ELSE [op |-> "get_match", status |-> 200,
              body |-> batch[CHOOSE k \in found : \A j \in found : k <= j],
              match_id |-> match_id]

\* The draws explored by get_match: the answer depends on the identifiers of
\* the batch, not on its statistics.
LookupDrawBatches ==
    {ds \in DrawBatches : ds[1] = Strong /\ ds[2] = Fair /\ ds[3] = At60}

\* GET /api/matches/{match_id}.  The identifiers asked for: every one issued
\* so far (those of every batch listed before among them) and 0, which never
\* is.  The batch goes with the handler's frame.
GetMatch ==
    \E ds \in LookupDrawBatches, adv \in 0..1 :
        /\ uuid + BatchSize <= MaxUuid
        /\ clock + adv * BatchSize <= MaxClock
        /\ LET batch == GenerateMockMatches(ds, uuid, clock, adv)
           IN  \E match_id \in 0..uuid :
                   response' = GetMatchResponse(batch, match_id)
        /\ matches' = <<>>
        /\ uuid' = uuid + BatchSize
        /\ clock' = clock + adv * BatchSize
        /\ UNCHANGED <<alerts, invocations>>

\* GET /api/alerts
GetAlerts ==
    \E ties \in {"natural", "reverse"} :
        /\ response' = [op |-> "get_alerts", status |-> 200,
                        body |-> ListAlerts(alerts, ties)]
        /\ matches' = <<>>
        /\ UNCHANGED <<alerts, uuid, clock, invocations>>

\* POST /api/alerts/mark-read/{alert_id}
MarkAlertReadId(alert_id) ==
    LET result == UpdateOneRead(alerts, alert_id)
    IN  /\ alerts' = result.store
        /\ response' = [op |-> "mark_alert_read",
                        status |-> MarkReadStatus(result),
                        body |-> MarkReadBody(result)]
        /\ matches' = <<>>
        /\ UNCHANGED <<uuid, clock, invocations>>

\* The identifiers tried: every one issued so far (the alerts' among them)
\* and 0, which never is.
MarkAlertRead == \E alert_id \in 0..uuid : MarkAlertReadId(alert_id)

\* POST /api/matches/check-comebacks
CheckComebacks ==
    \E ds \in DrawBatches, adv \in 0..1 :
        /\ uuid + 2 * BatchSize <= MaxUuid
        /\ clock + adv * 2 * BatchSize <= MaxClock
        /\ LET batch == GenerateMockMatches(ds, uuid, clock, adv)
               done == EvaluateAndAlert(alerts, batch, uuid + BatchSize,
                                        clock + adv * BatchSize, adv)
           IN  /\ matches' = batch
               /\ alerts' = done.store
               /\ uuid' = uuid + BatchSize + done.alerts_created
               /\ clock' = clock + adv * (BatchSize + done.alerts_created)
               /\ response' = [op |-> "check_comebacks", status |-> 200,
                               body |-> done.alerts_created]
        /\ UNCHANGED invocations

Next ==
    \/ GetLiveMatches
    \/ GetMatch
    \/ GetAlerts
    \/ MarkAlertRead
    \/ CheckComebacks

Spec == Init /\ [][Next]_vars

----------------------------------------------------------------------------
(* The loop of check_and_create_alerts on given snapshots: batches drawn     *)
(* from a pool of Match objects, so that the same snapshot can be evaluated  *)
(* again.  A snapshot's identifier is its index in the pool.                 *)

PoolTrailing == TeamData("Real Madrid", "teams/541.png", 0, 28, 72, 20, 10, 12, 75)
PoolLeading  == TeamData("Arsenal", "teams/42.png", 1, 5, 28, 4, 2, 2, 15)

SnapshotPool ==
    << \* the home team trails, far above the threshold
       Match(1, PoolTrailing, PoolLeading, 85, 91 * Scale, TRUE,
             "Real Madrid", Instant(0)),
       \* exactly at the threshold
       Match(2, PoolTrailing, PoolLeading, 60, 60 * Scale, TRUE,
             "Real Madrid", Instant(0)),
       \* above the threshold, not flagged as a comeback scenario
       Match(3, PoolTrailing, PoolLeading, 30, 70 * Scale, FALSE,
             "Real Madrid", Instant(0)),
       \* the away team trails, just above the threshold
       Match(4, PoolLeading, PoolTrailing, 47, 60 * Scale + 1, TRUE,
             "Real Madrid", Instant(0)),
       \* nobody trails
       Match(5, PoolTrailing, PoolLeading, 15, 0, FALSE, None, Instant(0)) >>

PoolSize == Len(SnapshotPool)

MaxBatch == 2

SnapshotBatches ==
    UNION {[1..n -> {SnapshotPool[k] : k \in 1..PoolSize}] : n \in 1..MaxBatch}

InitEval ==
    /\ alerts = <<>>
    /\ uuid = PoolSize
    /\ clock = 0
    /\ matches = <<>>
    /\ invocations = <<>>
    /\ response = NoResponse

EvaluateSnapshots ==
    \E batch \in SnapshotBatches, adv \in 0..1 :
        /\ uuid + Len(batch) <= MaxUuid
        /\ clock + adv * Len(batch) <= MaxClock
        /\ LET done == EvaluateAndAlert(alerts, batch, uuid, clock, adv)
           IN  /\ matches' = batch
               /\ alerts' = done.store
               /\ uuid' = uuid + done.alerts_created
               /\ clock' = clock + adv * done.alerts_created
               /\ response' = [op |-> "check_comebacks", status |-> 200,
                               body |-> done.alerts_created]
        /\ UNCHANGED invocations

NextEval ==
    \/ EvaluateSnapshots
    \/ GetAlerts
    \/ MarkAlertRead

SpecEval == InitEval /\ [][NextEval]_vars

----------------------------------------------------------------------------
(* get_alerts on collections of every size around the limit.  The alerts are *)
(* those earlier check-comebacks calls left: the k-th one was created for a  *)
(* match of its own, `perTick` alerts at each instant of the clock, and      *)
(* every `readEvery`-th one has been marked read since.                      *)

MaxExtra == 2

StoreSizes == {0, 1, 2, ListLimit - 1} \cup (ListLimit..(ListLimit + MaxExtra))

StoredAlert(k, perTick, readEvery) ==
    LET tick == (k - 1) \div perTick
        match == GenerateMatch(1 + (k % BatchSize), Strong, 2 * k - 1, Instant(tick))
        doc == NewAlert(match, 1, 2 * k - 1, tick, 0)
    IN  [doc EXCEPT !.read = (readEvery > 0 /\ k % readEvery = 0)]

InitList ==
    /\ \E n \in StoreSizes, perTick \in 1..3, readEvery \in 0..2 :
           /\ alerts = [k \in 1..n |-> StoredAlert(k, perTick, readEvery)]
           /\ uuid = 2 * n
           /\ clock = n \div perTick
    /\ matches = <<>>
    /\ invocations = <<>>
    /\ response = NoResponse

NextList == GetAlerts

SpecList == InitList /\ [][NextList]_vars

----------------------------------------------------------------------------
(* The evaluator on its own: inputs from bounded sets *)

MaxXg == 110
MaxCount == 100

RateValues == {0, 75, 100}
XgPairs == {<<0, 0>>, <<25, 10>>, <<10, 25>>, <<MaxXg, 10>>}
PossessionValues == {0, 55, 56, 65, 70, 100}
ShotPairs == {<<0, 0>>, <<7, 6>>, <<18, 6>>, <<6, 18>>}
OnTargetPairs == {<<0, 0>>, <<4, 3>>, <<8, 3>>}
AttackPairs == {<<0, 0>>, <<26, 25>>, <<60, 25>>, <<MaxCount, 0>>}

\* The arguments of one call, waiting to be evaluated.
InitCalc ==
    /\ alerts = <<>>
    /\ uuid = 0
    /\ clock = 0
    /\ matches = <<>>
    /\ invocations = <<>>
    /\ \E su \in BOOLEAN, rate \in RateValues, xg \in XgPairs,
          poss \in PossessionValues, sh \in ShotPairs, sot \in OnTargetPairs,
          da \in AttackPairs :
           response =
               [op |-> "arguments", status |-> 0,
                body |-> [team |-> TeamData("Real Madrid", "teams/541.png", 0,
                                            xg[1], poss, sh[1], sot[1], 0, da[1]),
                          opponent |-> TeamData("Sevilla", "teams/536.png", 1,
                                            xg[2], 100 - poss, sh[2], sot[2], 0, da[2]),
                          is_superteam |-> su, comeback_rate |-> rate]]

Calculate ==
    /\ response.op = "arguments"
    /\ LET a == response.body
       IN  response' =
               [op |-> "calculate", status |-> 200,
                body |-> [team |-> a.team, opponent |-> a.opponent,
                          is_superteam |-> a.is_superteam,
                          comeback_rate |-> a.comeback_rate,
                          result |-> CalculateComebackProbability(
                                         a.team, a.opponent, a.is_superteam,
                                         a.comeback_rate)]]
    /\ UNCHANGED <<alerts, uuid, clock, matches, invocations>>

NextCalc == Calculate

SpecCalc == InitCalc /\ [][NextCalc]_vars

----------------------------------------------------------------------------
(* check_and_create_alerts step by step.  The handler is a coroutine: it     *)
(* runs alone up to an await on the database, and while it waits for         *)
(* find_one or insert_one the event loop runs the other request.  Each       *)
(* database operation is one step; the code after it, up to the next await,  *)
(* belongs to the same step.  Two calls evaluate batches of pool snapshots.  *)

Callers == {"first", "second"}

MaxOverlapBatch == 2

OverlapBatches ==
    UNION {[1..n -> {SnapshotPool[k] : k \in 1..PoolSize}] : n \in 1..MaxOverlapBatch}

\* A call that has not begun: no batch, alerts_created not yet set.
NotCalled ==
    [pc |-> "not_called", matches |-> <<>>, i |-> 0, absent |-> {},
     doc |-> None, alerts_created |-> 0]

\* The loop from position `from` up to its next find_one, or to the return
\* (where the locals go): the matches that fail the test of line 271 are
\* passed without an await.
ContinueLoop(call, from) ==
    LET ahead == {j \in from..Len(call.matches) : Qualifies(call.matches[j])}
    IN  IF ahead = {}
        THEN [call EXCEPT !.pc = "returned", !.matches = <<>>, !.i = 0,
                          !.doc = None]
        ELSE [call EXCEPT !.pc = "find_one", !.doc = None,
                          !.i = CHOOSE j \in ahead : \A k \in ahead : j <= k]

\* What the client last received: the body of a call that has just returned.
Returned(call, last) ==
    IF call.pc = "returned"
    THEN [op |-> "check_comebacks", status |-> 200, body |-> call.alerts_created]
    ELSE last

\* Variant: an insert that writes only when the pair has no document yet.
InsertOneIfAbsent(store, doc) ==
    IF Existing(store, doc.match_id, doc.team_name) THEN store ELSE Append(store, doc)

\* insert_one(doc)
InsertOne(store, doc) == Append(store, doc)

InitOverlap ==
    /\ alerts = <<>>
    /\ uuid = PoolSize
    /\ clock = 0
    /\ matches = <<>>
    /\ response = NoResponse
    /\ invocations = [p \in Callers |-> NotCalled]

\* The call begins: matches = ..., alerts_created = 0, the loop up to its
\* first await.
BeginCheck(p) ==
    \E batch \in OverlapBatches :
        /\ invocations[p].pc = "not_called"
        /\ LET call == ContinueLoop([NotCalled EXCEPT !.matches = batch], 1)
           IN  /\ invocations' = [invocations EXCEPT ![p] = call]
               /\ response' = Returned(call, response)
        /\ UNCHANGED <<alerts, uuid, clock, matches>>

\* find_one answers.  With a document the loop goes on; with None the alert
\* is built (its id and timestamp are taken now) and insert_one is awaited.
FindOne(p) ==
    \E adv \in 0..1 :
        LET call == invocations[p]
            match == call.matches[call.i]
        IN  /\ call.pc = "find_one"
            /\ IF Existing(alerts, match.id, match.losing_team)
               THEN LET after == ContinueLoop(call, call.i + 1)
                    IN  /\ invocations' = [invocations EXCEPT ![p] = after]
                        /\ response' = Returned(after, response)
                        /\ UNCHANGED <<uuid, clock>>
               ELSE /\ invocations' =
                           [invocations EXCEPT ![p] =
                               [call EXCEPT
                                   !.pc = "insert_one",
                                   !.absent = @ \cup {<<match.id, match.losing_team>>},
                                   !.doc = NewAlert(match, 1, uuid, clock, 0)]]
                    /\ uuid' = uuid + 1
                    /\ clock' = clock + adv
                    /\ UNCHANGED response
            /\ UNCHANGED <<alerts, matches>>

\* insert_one completes: alerts_created += 1, then the loop up to its next
\* await.
InsertOneDone(p) ==
    LET call == invocations[p]
        after == ContinueLoop([call EXCEPT !.alerts_created = @ + 1], call.i + 1)
    IN  /\ call.pc = "insert_one"
        /\ alerts' = InsertOne(alerts, call.doc)
        /\ invocations' = [invocations EXCEPT ![p] = after]
        /\ response' = Returned(after, response)
        /\ UNCHANGED <<uuid, clock, matches>>

BeginCheckAny == \E p \in Callers : BeginCheck(p)
FindOneAny == \E p \in Callers : FindOne(p)
InsertOneAny == \E p \in Callers : InsertOneDone(p)

NextOverlap ==
    \/ BeginCheckAny
    \/ FindOneAny
    \/ InsertOneAny

SpecOverlap == InitOverlap /\ [][NextOverlap]_vars

----------------------------------------------------------------------------
(* Properties of the alert store *)

PairsOf(batch) == {<<batch[k].id, batch[k].losing_team>> : k \in 1..Len(batch)}

AlertsFor(store, match_id, team_name) ==
    {k \in 1..Len(store) :
        store[k].match_id = match_id /\ store[k].team_name = team_name}

\* C1: whatever snapshots are evaluated, and in whatever order the calls are
\* made, the store never holds two alerts with the same match identifier and
\* team name.
C1_AtMostOneAlertPerPair ==
    \A i, j \in 1..Len(alerts) :
        (alerts[i].match_id = alerts[j].match_id
            /\ alerts[i].team_name = alerts[j].team_name) => i = j

\* A batch that holds the same qualifying snapshot twice has been evaluated
\* and one alert stands for it.
C1_Witness ==
    /\ response.op = "check_comebacks"
    /\ Len(matches) = 2
    /\ matches[1] = matches[2]
    /\ Qualifies(matches[1])
    /\ response.body = 1
    /\ Cardinality(AlertsFor(alerts, matches[1].id, matches[1].losing_team)) = 1

\* C2: an evaluation that directly follows the evaluation of snapshots with
\* the same (match id, losing team) pairs leaves the store as it is and
\* reports alerts_created = 0.
C2_ReEvaluationCreatesNothing ==
    [][(/\ response.op = "check_comebacks"
        /\ response'.op = "check_comebacks"
        /\ matches # <<>>
        /\ PairsOf(matches') = PairsOf(matches))
       => (alerts' = alerts /\ response'.body = 0)]_vars

\* The second evaluation of a batch with a qualifying snapshot has run: the
\* alert of the first one is there and nothing was created.
C2_Witness ==
    /\ response.op = "check_comebacks"
    /\ response.body = 0
    /\ \E k \in 1..Len(matches) :
           /\ Qualifies(matches[k])
           /\ AlertsFor(alerts, matches[k].id, matches[k].losing_team) # {}

\* C3: every alert in the store comes from a snapshot that is flagged as a
\* comeback scenario and whose probability is strictly above 60, and carries
\* that snapshot's probability; a snapshot at exactly 60 has no alert.
C3_AlertOnlyAboveSixty ==
    \A k \in 1..Len(alerts) :
        /\ alerts[k].match_id \in 1..PoolSize
        /\ LET snapshot == SnapshotPool[alerts[k].match_id]
           IN  /\ snapshot.is_comeback_scenario
               /\ snapshot.comeback_probability > 60 * Scale
               /\ alerts[k].probability = snapshot.comeback_probability
               /\ alerts[k].team_name = snapshot.losing_team

\* The snapshot at exactly 60 and one above it were evaluated together: one
\* alert was created, none for the snapshot at 60.
C3_Witness ==
    /\ response.op = "check_comebacks"
    /\ response.body = 1
    /\ \E k \in 1..Len(matches) :
           /\ matches[k].is_comeback_scenario
           /\ matches[k].comeback_probability = 60 * Scale
           /\ AlertsFor(alerts, matches[k].id, matches[k].losing_team) = {}
    /\ \E k \in 1..Len(alerts) : alerts[k].probability > 60 * Scale

\* C4: mark-read answers 404 exactly when no alert has the identifier, and
\* then leaves the store as it is.
C4_NotFoundIffAbsent ==
    [][\A alert_id \in 0..uuid :
          MarkAlertReadId(alert_id) =>
              /\ (response'.status = 404) <=> (Matched(alerts, alert_id) = {})
              /\ (Matched(alerts, alert_id) = {}) => (alerts' = alerts)]_vars

\* C5: no call removes an alert or changes any field of one except `read`,
\* which is FALSE in a new alert, goes to TRUE in the alert mark-read names,
\* never goes back to FALSE, and is listed as the store holds it.
C5_Lifecycle ==
    [][/\ Len(alerts') >= Len(alerts)
       /\ \A k \in 1..Len(alerts) :
              /\ alerts'[k] = [alerts[k] EXCEPT !.read = alerts'[k].read]
              /\ alerts[k].read => alerts'[k].read
       /\ \A k \in (Len(alerts) + 1)..Len(alerts') : alerts'[k].read = FALSE
       /\ \A alert_id \in 0..uuid :
              MarkAlertReadId(alert_id) =>
                  \A k \in Matched(alerts, alert_id) : alerts'[k].read
       /\ response'.op = "get_alerts" =>
              \A j \in 1..Len(response'.body) :
                  \E k \in 1..Len(alerts') :
                      /\ alerts'[k].id = response'.body[j].id
                      /\ alerts'[k].read = response'.body[j].read]_vars

\* A listing that shows an alert that was marked read beside an unread one.
C5_Witness ==
    /\ response.op = "get_alerts"
    /\ \E j \in 1..Len(response.body) : response.body[j].read
    /\ \E j \in 1..Len(response.body) : ~response.body[j].read

\* C7: in a generated batch, a match is flagged exactly when its probability
\* is above 50; a match whose superteam does not trail has probability 0, no
\* flag and no losing team; one whose superteam trails names it as losing team.
C7_SnapshotFlags ==
    \A i \in 1..Len(matches) :
        LET m == matches[i]
        IN  /\ m.is_comeback_scenario <=> (m.comeback_probability > 50 * Scale)
            /\ IF m.home_team.score < m.away_team.score
               THEN m.losing_team = SUPERTEAMS[i].name
                    /\ m.home_team.name = SUPERTEAMS[i].name
               ELSE /\ m.comeback_probability = 0
                    /\ ~m.is_comeback_scenario
                    /\ m.losing_team = None

\* A batch with a trailing superteam at exactly 50 (not flagged), another
\* trailing one that is flagged, and one that does not trail.
C7_Witness ==
    /\ response.op = "get_live_matches"
    /\ \E i \in 1..Len(matches) :
           /\ matches[i].comeback_probability = 50 * Scale
           /\ ~matches[i].is_comeback_scenario
           /\ matches[i].losing_team # None
    /\ \E i \in 1..Len(matches) : matches[i].is_comeback_scenario
    /\ \E i \in 1..Len(matches) : matches[i].losing_team = None

\* t is not later than u
NotLater(t, u) == t.sec < u.sec \/ (t.sec = u.sec /\ t.usec <= u.usec)

\* C9: a listing holds at most 50 alerts, all of them when the store holds no
\* more; each is an alert of the store, none twice; they are in descending
\* order of creation time, and none left out is newer than one listed; the
\* store is as it was.
C9_ListNewestFifty ==
    [][response'.op = "get_alerts" =>
          LET listed == response'.body
              ids == {listed[j].id : j \in 1..Len(listed)}
          IN  /\ Len(listed) <= 50
              /\ Len(listed) = Min(Len(alerts), 50)
              /\ Cardinality(ids) = Len(listed)
              /\ \A j \in 1..Len(listed) :
                     \E k \in 1..Len(alerts) :
                         listed[j] = [alerts[k] EXCEPT
                                         !.timestamp = FromIsoFormat(alerts[k].timestamp)]
              /\ \A i, j \in 1..Len(listed) :
                     i < j => NotLater(listed[j].timestamp, listed[i].timestamp)
              /\ \A k \in 1..Len(alerts) :
                     alerts[k].id \notin ids =>
                         \A j \in 1..Len(listed) :
                             NotLater(FromIsoFormat(alerts[k].timestamp),
                                      listed[j].timestamp)
              /\ alerts' = alerts]_vars

\* A store of more than 50 alerts, some created at the same instant and some
\* on a whole second, has been listed: 50 came back.
C9_Witness ==
    /\ response.op = "get_alerts"
    /\ Len(alerts) > 50
    /\ Len(response.body) = 50
    /\ \E j \in 1..49 : response.body[j].timestamp = response.body[j + 1].timestamp
    /\ \E j \in 1..50 : response.body[j].timestamp.usec = 0

----------------------------------------------------------------------------
(* Properties of calculate_comeback_probability *)

Called == response.op = "calculate"

Indicator(b) == IF b THEN 1 ELSE 0

\* The sum of the six terms before the final clamp.
TermSum(team, opp, is_superteam, rate) ==
    HistoryTerm(is_superteam, rate) + XgTerm(team, opp) + PossessionTerm(team)
    + ShotsTerm(team, opp) + OnTargetTerm(team, opp) + AttacksTerm(team, opp)

\* C6: for non-negative statistics, possession 0..100, either flag and a rate
\* in [0, 1], the probability returned lies in [0, 95]; so does the
\* probability of every snapshot of a batch and of every stored alert.
C6_ProbabilityInRange ==
    /\ Called =>
           /\ response.body.result.probability >= 0
           /\ response.body.result.probability <= 95 * Scale
    /\ \A i \in 1..Len(matches) :
           matches[i].comeback_probability \in 0..(95 * Scale)
    /\ \A k \in 1..Len(alerts) :
           alerts[k].probability \in 0..(95 * Scale)

\* A call whose terms sum to more than 95 has returned 95.
C6_Witness ==
    /\ Called
    /\ TermSum(response.body.team, response.body.opponent,
               response.body.is_superteam, response.body.comeback_rate) > 95 * Scale
    /\ response.body.result.probability = 95 * Scale

\* The additive model as the specification states it, in hundredths.
ReferenceProbability(t, o, is_superteam, rate) ==
    Min(95 * Scale,
        Indicator(is_superteam) * rate * 30
        + Indicator(t.xg > o.xg) * Min((t.xg - o.xg) * 150, 2500)
        + Indicator(t.possession > 55) * (t.possession - 55) * 50
        + Indicator(t.shots > o.shots) * Min((t.shots - o.shots) * 200, 1500)
        + Indicator(t.shots_on_target > o.shots_on_target)
            * Min((t.shots_on_target - o.shots_on_target) * 300, 1000)
        + Indicator(t.dangerous_attacks > o.dangerous_attacks)
            * Min((t.dangerous_attacks - o.dangerous_attacks) * 30, 1000))

\* No advantage in xG, shots, shots on target or dangerous attacks.
LevelStatistics(t, o) ==
    /\ t.xg = o.xg
    /\ t.shots = o.shots
    /\ t.shots_on_target = o.shots_on_target
    /\ t.dangerous_attacks = o.dangerous_attacks

SpecScenario(a) ==
    /\ a.team.xg = 25 /\ a.opponent.xg = 10
    /\ a.team.possession = 65
    /\ a.team.shots = 18 /\ a.opponent.shots = 6
    /\ a.team.shots_on_target = 8 /\ a.opponent.shots_on_target = 3
    /\ a.team.dangerous_attacks = 60 /\ a.opponent.dangerous_attacks = 25
    /\ a.is_superteam /\ a.comeback_rate = 75

\* C8: the probability returned is the reference additive model's; the xG
\* term is at most 25; alone, possession 55 gives 0, possession 70 gives 7.5
\* and a superteam's rate 0.75 gives 22.5; the specification's scenario
\* gives 85.
C8_MatchesReferenceModel ==
    Called =>
        LET a == response.body
            p == a.result.probability
        IN  /\ p = ReferenceProbability(a.team, a.opponent, a.is_superteam,
                                        a.comeback_rate)
            /\ (~a.is_superteam /\ a.team.possession <= 55
                    /\ a.team.shots = a.opponent.shots
                    /\ a.team.shots_on_target = a.opponent.shots_on_target
                    /\ a.team.dangerous_attacks = a.opponent.dangerous_attacks)
                   => p <= 25 * Scale
            /\ (~a.is_superteam /\ LevelStatistics(a.team, a.opponent)
                    /\ a.team.possession = 55) => p = 0
            /\ (~a.is_superteam /\ LevelStatistics(a.team, a.opponent)
                    /\ a.team.possession = 70) => p = 750
            /\ (a.is_superteam /\ a.comeback_rate = 75
                    /\ LevelStatistics(a.team, a.opponent)
                    /\ a.team.possession <= 55) => p = 2250
            /\ SpecScenario(a) => p = 85 * Scale

\* The specification's scenario has been evaluated, to 85.
C8_Witness ==
    /\ Called
    /\ SpecScenario(response.body)
    /\ response.body.result.probability = 85 * Scale

\* The fragments a call is to record, from the factors that fire, in order.
ExpectedFragments(a) ==
    LET t == a.team
        o == a.opponent
        candidates ==
            << [fires |-> a.is_superteam,
                fragment |-> Fragment("history", <<a.comeback_rate>>, <<>>)],
               [fires |-> t.xg > o.xg,
                fragment |-> Fragment("xg", <<t.xg \div 10, t.xg % 10>>,
                                            <<o.xg \div 10, o.xg % 10>>)],
               [fires |-> t.possession > 55,
                fragment |-> Fragment("possession", <<t.possession>>, <<>>)],
               [fires |-> t.shots > o.shots,
                fragment |-> Fragment("shots", <<t.shots>>, <<o.shots>>)],
               [fires |-> t.dangerous_attacks > o.dangerous_attacks,
                fragment |-> Fragment("pressure", <<>>, <<>>)] >>
        Fires(c) == c.fires
        fired == SelectSeq(candidates, Fires)
    IN  [k \in 1..Len(fired) |-> fired[k].fragment]

\* The fragments of a joined string: what stands between the separators.
FragmentsOf(str) == [k \in 1..((Len(str) + 1) \div 2) |-> str[2 * k - 1]]

\* C10: the rationale is the first three (or fewer) of the fragments recorded
\* for the factors that fire, in the order history, xG, possession, shots,
\* dangerous attacks, with a separator between neighbours and nowhere else;
\* shots on target adds none, and no factor firing gives the empty string.
C10_RationaleFirstThree ==
    Called =>
        LET a == response.body
            reason == a.result.reason
            expected == ExpectedFragments(a)
            n == Min(Len(expected), 3)
        IN  /\ Len(reason) = (IF n = 0 THEN 0 ELSE 2 * n - 1)
            /\ \A k \in 1..Len(reason) :
                   (reason[k] = Separator) <=> (k % 2 = 0)
            /\ FragmentsOf(reason) = SubSeq(expected, 1, n)
            /\ (expected = <<>>) => (reason = <<>>)

\* Five factors recorded a fragment (and shots on target fired): the rationale
\* holds the first three.
C10_Witness ==
    /\ Called
    /\ Len(ExpectedFragments(response.body)) = 5
    /\ response.body.team.shots_on_target > response.body.opponent.shots_on_target
    /\ Len(FragmentsOf(response.body.result.reason)) = 3
    /\ response.body.result.reason[5].kind = "possession"

----------------------------------------------------------------------------
(* Overlapping check-comebacks calls *)

\* The pairs for which the call found no alert and has completed its insert.
InsertedBy(p) ==
    LET call == invocations[p]
    IN  IF call.pc = "insert_one"
        THEN call.absent \ {<<call.doc.match_id, call.doc.team_name>>}
        ELSE call.absent

PoolPairs == {<<k, SnapshotPool[k].losing_team>> : k \in 1..PoolSize}

\* C11: the existence check and the insert are separate steps, and the insert
\* does not look at the store again: every call that found no alert for a
\* (match id, team name) pair inserts one and counts it, whatever the other
\* call has inserted since its check.  The store holds, for each pair, one
\* alert per call that found none and has completed its insert (two when both
\* calls checked before either inserted), and each call's alerts_created is
\* the number of pairs it found absent and inserted.
C11_CheckThenInsertNotExclusive ==
    /\ \A p \in Callers :
           invocations[p].alerts_created = Cardinality(InsertedBy(p))
    /\ \A pair \in PoolPairs :
           Cardinality(AlertsFor(alerts, pair[1], pair[2]))
               = Cardinality({p \in Callers : pair \in InsertedBy(p)})

\* Both calls evaluated the same snapshot, both found no alert for its pair,
\* both have returned alerts_created = 1, and the store holds two alerts for
\* the pair.
C11_Witness ==
    /\ \A p \in Callers :
           /\ invocations[p].pc = "returned"
           /\ invocations[p].alerts_created = 1
    /\ \E pair \in PoolPairs :
           /\ \A p \in Callers : pair \in invocations[p].absent
           /\ Cardinality(AlertsFor(alerts, pair[1], pair[2])) = 2
    /\ Len(alerts) = 2
    /\ alerts[1].id # alerts[2].id

----------------------------------------------------------------------------
(* check-comebacks on regenerated batches *)

\* A step of the check-comebacks handler (it always issues identifiers).
CheckComebacksStep == response'.op = "check_comebacks" /\ uuid' # uuid

\* The positions of a batch whose probability is above 60.
AboveSixty(batch) ==
    {k \in 1..Len(batch) : batch[k].comeback_probability > 60 * Scale}

\* C12: every check-comebacks call evaluates a batch with fresh match
\* identifiers, so its existence check finds nothing, whatever the store
\* holds: the store keeps what it had and gains exactly one alert for each
\* generated match with probability above 60, and the returned alerts_created
\* is the number of those matches (between 0 and the batch size) and the
\* growth of the store.
C12_FreshBatchAlwaysInserts ==
    [][CheckComebacksStep =>
        LET hot == AboveSixty(matches')
            n == Cardinality(hot)
        IN  /\ Len(matches') = BatchSize
            /\ \A k \in 1..BatchSize :
                   ~Existing(alerts, matches'[k].id, matches'[k].losing_team)
            /\ n \in 0..BatchSize
            /\ response'.body = n
            /\ Len(alerts') = Len(alerts) + n
            /\ SubSeq(alerts', 1, Len(alerts)) = alerts
            /\ \A k \in 1..BatchSize :
                   LET found == AlertsFor(alerts', matches'[k].id,
                                          matches'[k].losing_team)
                   IN  /\ Cardinality(found) = (IF k \in hot THEN 1 ELSE 0)
                       /\ \A a \in found :
                              /\ a > Len(alerts)
                              /\ alerts'[a].probability
                                     = matches'[k].comeback_probability
                       ]_vars

\* A later call has just added an alert for a team that an earlier call had
\* already left an alert for: two alerts with one team_name, for two matches.
C12_Witness ==
    /\ response.op = "check_comebacks"
    /\ response.body >= 1
    /\ \E i, j \in 1..Len(alerts) :
           /\ i < j
           /\ alerts[i].team_name = alerts[j].team_name
           /\ alerts[i].match_id # alerts[j].match_id
           /\ \E k \in AboveSixty(matches) : matches[k].id = alerts[j].match_id
           /\ \A k \in 1..Len(matches) : matches[k].id # alerts[i].match_id

----------------------------------------------------------------------------
(* get_match on a regenerated batch *)

\* A step of the get_match handler (it always issues identifiers).
GetMatchStep == response'.op = "get_match" /\ uuid' # uuid

\* The identifiers of the matches in the body of a get_live_matches answer.
ListedIds(answer) ==
    IF answer.op = "get_live_matches"
    THEN {answer.body[k].id : k \in 1..Len(answer.body)}
    ELSE {}

\* C13: get_match looks the identifier up in a batch generated for this
\* request, whose identifiers are new: asked for any identifier issued by an
\* earlier call (those of the batch just listed among them), it answers 404
\* "Match not found", never a match, and it leaves the alert store as it was.
C13_GetMatchNeverFinds ==
    [][GetMatchStep =>
        /\ response'.match_id \in 0..uuid
        /\ response'.status = 404
        /\ response'.body = "Match not found"
        /\ alerts' = alerts
        /\ ListedIds(response) \subseteq 1..uuid
        /\ uuid' = uuid + BatchSize
       ]_vars

\* The identifier asked for was issued before the batch of this request, as
\* the identifier of a match (no alert has been created): the answer is 404.
C13_Witness ==
    /\ response.op = "get_match"
    /\ response.status = 404
    /\ alerts = <<>>
    /\ response.match_id \in 1..(uuid - BatchSize)

====
